---- MODULE Spec2Model ----
(***************************************************************************)
(* A model of the web-content extraction service: the text and URL         *)
(* utilities of utils.py, the field extractors and the orchestrator of     *)
(* extractor.py, and the /extract route of app.py.                         *)
(*                                                                         *)
(* Python strings are TLA+ strings (Len, \o and SubSeq act on them), None  *)
(* is the value None, a dict is a function from its keys, a list a         *)
(* sequence.  A parsed document is the sequence of its element nodes in    *)
(* document order, each with its tag name, its attributes and its text.    *)
(***************************************************************************)
EXTENDS Naturals, Sequences, FiniteSets, TLC

VARIABLES
    keywordsMap,    \* utils.keywordsMap, loaded at import (process-wide)
    loaded,         \* what keywords.yaml held when it was loaded
    clock,          \* the UTC clock datetime.utcnow() reads
    pc,             \* per thread: the statement of extract() it is at
    url,            \* per thread: extract's argument url
    html,           \* per thread: extract's argument inpBinObj
    soup,           \* per thread: the local soup
    header,         \* per thread: the local header dict
    body,           \* per thread: the local body dict
    webdata,        \* per thread: the dict extract() returned
    memo,           \* per thread: the first call with reference arguments, and its record
    http,           \* the outcome of the last request to the /extract route
    lk,             \* a getLinks call: its arguments and its result
    ef,             \* an extractFirst call: its argument and its result
    em              \* an isEmailLink call: its argument and its result

vars == <<keywordsMap, loaded, clock, pc, url, html, soup, header, body, webdata,
          memo, http, lk, ef, em>>

None == [py |-> "None"]
EmptyDict == [k \in {} |-> None]
NoCall == [py |-> "no call"]

(***************************************************************************)
(* Bounds of the model.                                                    *)
(***************************************************************************)
MaxTextLen == 4
MaxAnchors == 2
MaxNodes == 2
MaxClock == 1
NumThreads == 2

(***************************************************************************)
(* Python's str operations, as far as the utilities use them.              *)
(***************************************************************************)
Char(s, i) == SubSeq(s, i, i)

StartsWith(s, p) == Len(s) >= Len(p) /\ SubSeq(s, 1, Len(p)) = p

\* sub in s
Contains(s, sub) ==
    \E i \in 1..(Len(s) + 1) : i + Len(sub) - 1 <= Len(s) /\ SubSeq(s, i, i + Len(sub) - 1) = sub

\* s.find(sub) + 1: the first place sub starts at, 0 when it is not in s
Find(s, sub) ==
    IF Contains(s, sub)
    THEN CHOOSE i \in 1..(Len(s) + 1) :
            /\ i + Len(sub) - 1 <= Len(s)
            /\ SubSeq(s, i, i + Len(sub) - 1) = sub
            /\ \A j \in 1..(i - 1) : SubSeq(s, j, j + Len(sub) - 1) # sub
    ELSE 0

\* s.partition(sep)[0]
Before(s, sep) == IF Find(s, sep) = 0 THEN s ELSE SubSeq(s, 1, Find(s, sep) - 1)

\* s.partition(sep)[2]
After(s, sep) ==
    IF Find(s, sep) = 0 THEN "" ELSE SubSeq(s, Find(s, sep) + Len(sep), Len(s))

RECURSIVE AfterLast(_, _)
\* s.split(sep)[-1]
AfterLast(s, sep) == IF Find(s, sep) = 0 THEN s ELSE AfterLast(After(s, sep), sep)

\* s.rpartition(sep)[0]
BeforeLast(s, sep) ==
    IF Find(s, sep) = 0 THEN ""
    ELSE SubSeq(s, 1, Len(s) - Len(AfterLast(s, sep)) - Len(sep))

LowerChar(c) ==
    CASE c = "A" -> "a" [] c = "I" -> "i" [] c = "L" -> "l" [] c = "M" -> "m"
      [] c = "O" -> "o" [] c = "T" -> "t" [] OTHER -> c

RECURSIVE lower(_)
lower(s) == IF s = "" THEN "" ELSE LowerChar(Char(s, 1)) \o lower(Tail(s))

Whitespace == {" ", "\t", "\n", "\r", "\f"}

RECURSIVE lstrip(_)
lstrip(s) == IF s # "" /\ Char(s, 1) \in Whitespace THEN lstrip(Tail(s)) ELSE s

RECURSIVE rstrip(_)
rstrip(s) ==
    IF s # "" /\ Char(s, Len(s)) \in Whitespace THEN rstrip(SubSeq(s, 1, Len(s) - 1)) ELSE s

strip(s) == rstrip(lstrip(s))

RECURSIVE replace(_, _, _)
\* s.replace(old, new) for a one-character old
replace(s, old, new) ==
    IF s = "" THEN ""
    ELSE (IF Char(s, 1) = old THEN new ELSE Char(s, 1)) \o replace(Tail(s), old, new)

(***************************************************************************)
(* Python values handed to the utilities: None, a str, an int, or a bs4    *)
(* Tag with its name, its attributes and its text.  A Tag is always true   *)
(* (bs4's Tag.__bool__), a str is true when non-empty, an int when         *)
(* non-zero, None is false; only a Tag has a .text attribute.              *)
(***************************************************************************)
Str(s) == [py |-> "str", s |-> s]
Int(n) == [py |-> "int", n |-> n]
Tag(name, attrs, text) == [py |-> "Tag", name |-> name, attrs |-> attrs, text |-> text]

IsStr(v) == v.py = "str"
IsTag(v) == v.py = "Tag"

Truthy(v) ==
    CASE v.py = "str" -> v.s # ""
      [] v.py = "Tag" -> TRUE
      [] v.py = "int" -> v.n # 0
      [] OTHER -> FALSE

HasText(v) == IsTag(v)

\* a faulty variant: the newline is left in the text
extractFirstKeepsNewline(val) ==
    IF ~Truthy(val) THEN Str("")
    ELSE IF ~HasText(val) THEN val
    ELSE Str(replace(replace(strip(val.text), "\t", " "), "\r", " "))

\* utils.extractFirst
extractFirst(val) ==
    IF ~Truthy(val) THEN Str("")              \* neither "if val:" holds: return ''
    ELSE IF ~HasText(val) THEN val            \* val.text: AttributeError, return val
    ELSE Str(replace(replace(replace(strip(val.text), "\t", " "), "\r", " "), "\n", " "))

\* utils.extractTextAsIs
extractTextAsIs(val) == IF HasText(val) THEN Str(val.text) ELSE None

\* utils.extractAttributeValue: tag[attr], '' on any exception
extractAttributeValue(tag, attr) ==
    IF IsTag(tag) /\ attr \in DOMAIN tag.attrs THEN Str(tag.attrs[attr]) ELSE Str("")

\* tag.get(attr, default)
TagGet(tag, attr, default) ==
    IF attr \in DOMAIN tag.attrs THEN Str(tag.attrs[attr]) ELSE default

(***************************************************************************)
(* isEmailLink.  utils.py binds no name mailValidation (it imports json,   *)
(* logging, os, re, urljoin, tldextract, yaml and fuzz), so the call       *)
(* mailValidation.email(url) raises NameError, which the except clause     *)
(* turns into False.                                                       *)
(***************************************************************************)
UtilsNames ==
    {"json", "logging", "os", "re", "urljoin", "tldextract", "yaml", "fuzz", "logger",
     "keywordsMap", "handlesException", "toNum", "toFloat", "toInt", "cleanText",
     "cleanLinks", "extractFirst", "extractTextAsIs", "extractAttributeValue",
     "toAbsoluteURL", "isEmailLink", "isSocialLink", "isDomainLink", "saveToFile"}

\* a bare address local@domain.tld: what an email validator accepts
IsBareEmail(s) ==
    /\ Contains(s, "@")
    /\ ~Contains(After(s, "@"), "@")
    /\ Before(s, "@") # ""
    /\ ~Contains(s, ":") /\ ~Contains(s, "/") /\ ~Contains(s, " ")
    /\ Contains(After(s, "@"), ".")
    /\ Before(After(s, "@"), ".") # ""
    /\ AfterLast(s, ".") # ""

\* utils.isEmailLink
isEmailLink(u) ==
    IF ~IsStr(u) THEN FALSE                               \* url.lower(): AttributeError
    ELSE IF Contains(lower(u.s), "mailto:") THEN TRUE
    ELSE IF "mailValidation" \notin UtilsNames THEN FALSE \* NameError
    ELSE IsBareEmail(u.s)

(***************************************************************************)
(* urllib.parse.urljoin, for an empty reference, a reference with a        *)
(* scheme, a reference that starts with "/", and a relative path without   *)
(* dot segments.                                                           *)
(***************************************************************************)
Letters ==
    {"a", "b", "c", "d", "e", "f", "g", "h", "i", "j", "k", "l", "m", "n", "o", "p", "q",
     "r", "s", "t", "u", "v", "w", "x", "y", "z", "A", "I", "L", "M", "O", "T"}

SchemeChars == Letters \cup {"0", "1", "2", "3", "4", "5", "6", "7", "8", "9", "+", "-", "."}

\* urlsplit(u).scheme: the lower-cased text before the first ":", "" when it is no scheme
UrlScheme(u) ==
    LET i == Find(u, ":")
    IN  IF i > 1 /\ Char(u, 1) \in Letters /\ \A k \in 1..(i - 1) : Char(u, k) \in SchemeChars
        THEN lower(SubSeq(u, 1, i - 1))
        ELSE ""

UsesRelative == {"", "http", "https", "ftp", "file"}

\* scheme://netloc of an absolute http(s) URL
UrlOrigin(u) ==
    LET rest == After(u, "://")
    IN  Before(u, "://") \o "://" \o Before(Before(Before(rest, "/"), "?"), "#")

\* the path of an absolute http(s) URL, without query and fragment
UrlPath(u) ==
    LET rest == Before(Before(After(u, "://"), "?"), "#")
    IN  IF Contains(rest, "/") THEN "/" \o After(rest, "/") ELSE ""

urljoin(base, u) ==
    IF ~Truthy(base) THEN u
    ELSE IF ~Truthy(u) THEN base
    ELSE IF UrlScheme(u.s) # "" /\ (UrlScheme(u.s) # UrlScheme(base.s)
                                    \/ UrlScheme(u.s) \notin UsesRelative) THEN u
    ELSE IF UrlScheme(u.s) # "" THEN u
    ELSE IF StartsWith(u.s, "/") THEN Str(UrlOrigin(base.s) \o u.s)
    ELSE Str(UrlOrigin(base.s) \o BeforeLast(UrlPath(base.s), "/") \o "/" \o u.s)

\* a faulty variant: an empty reference is kept empty
toAbsoluteURLKeepsEmpty(base_url, u) == IF ~Truthy(u) THEN u ELSE urljoin(base_url, u)

\* utils.toAbsoluteURL
toAbsoluteURL(base_url, u) == urljoin(base_url, u)

(***************************************************************************)
(* tldextract.extract: the scheme and "//" are dropped, the host is what   *)
(* is left before the first "/", "?" or "#", after the last "@" and before *)
(* the first ":"; its labels are split into subdomain, domain and public   *)
(* suffix.                                                                 *)
(***************************************************************************)
PublicSuffixes == {"com", "org"}

RECURSIVE SplitDots(_)
SplitDots(s) == IF Contains(s, ".") THEN <<Before(s, ".")>> \o SplitDots(After(s, ".")) ELSE <<s>>

RECURSIVE JoinDots(_)
JoinDots(ls) ==
    IF ls = <<>> THEN "" ELSE IF Len(ls) = 1 THEN ls[1] ELSE ls[1] \o "." \o JoinDots(Tail(ls))

TldNetloc(u) ==
    LET noscheme == IF StartsWith(u, "//") THEN After(u, "//")
                    ELSE IF UrlScheme(u) # "" /\ StartsWith(After(u, ":"), "//")
                         THEN After(u, "://")
                         ELSE u
    IN  Before(AfterLast(Before(Before(Before(noscheme, "/"), "?"), "#"), "@"), ":")

TldExtract(u) ==
    LET labels == SplitDots(TldNetloc(u))
        n == Len(labels)
    IN  IF lower(labels[n]) \in PublicSuffixes
        THEN [subdomain |-> JoinDots(SubSeq(labels, 1, n - 2)),
              domain |-> IF n >= 2 THEN labels[n - 1] ELSE "",
              suffix |-> labels[n]]
        ELSE [subdomain |-> JoinDots(SubSeq(labels, 1, n - 1)),
              domain |-> labels[n],
              suffix |-> ""]

(***************************************************************************)
(* fuzzywuzzy's fuzz.ratio on difflib: 100 for equal strings, 0 when one   *)
(* is empty, else 100 * 2M / T rounded, M the size of the matching blocks  *)
(* (the longest common block, then the same left and right of it) and T    *)
(* the two lengths together.                                               *)
(***************************************************************************)
CommonAt(a, b, i, j, k) ==
    i + k - 1 <= Len(a) /\ j + k - 1 <= Len(b) /\ SubSeq(a, i, i + k - 1) = SubSeq(b, j, j + k - 1)

\* the size of the longest common block of a and b
LongestLen(a, b) ==
    LET ks == {k \in 1..Len(a) : \E i \in 1..Len(a), j \in 1..Len(b) : CommonAt(a, b, i, j, k)}
    IN  IF ks = {} THEN 0 ELSE CHOOSE k \in ks : \A m \in ks : m <= k

RECURSIVE MatchSize(_, _)
MatchSize(a, b) ==
    IF a = "" \/ b = "" THEN 0
    ELSE LET k == LongestLen(a, b)
         IN  IF k = 0 THEN 0
             ELSE LET i == CHOOSE x \in 1..Len(a) :
                              /\ \E j \in 1..Len(b) : CommonAt(a, b, x, j, k)
                              /\ \A y \in 1..(x - 1) : ~\E j \in 1..Len(b) : CommonAt(a, b, y, j, k)
                      j == CHOOSE x \in 1..Len(b) :
                              /\ CommonAt(a, b, i, x, k)
                              /\ \A y \in 1..(x - 1) : ~CommonAt(a, b, i, y, k)
                  IN  k + MatchSize(SubSeq(a, 1, i - 1), SubSeq(b, 1, j - 1))
                        + MatchSize(SubSeq(a, i + k, Len(a)), SubSeq(b, j + k, Len(b)))

\* int(round(100 * 2M / T)), halves to the even neighbour
RoundDiv(num, den) ==
    LET q == num \div den
        r == num % den
    IN  IF 2 * r > den THEN q + 1 ELSE IF 2 * r = den THEN q + (q % 2) ELSE q

FuzzRatio(a, b) ==
    IF a = b THEN 100
    ELSE IF a = "" \/ b = "" THEN 0
    ELSE RoundDiv(200 * MatchSize(a, b), Len(a) + Len(b))

(***************************************************************************)
(* The configuration keywords.yaml holds: the social-network domain tokens *)
(* and the same-domain threshold.                                          *)
(***************************************************************************)
SocialLinks ==
    {"linkedin", "facebook", "twitter", "youtube", "instagram", "pinterest", "plus_google"}

InlinkThresholds == {80, 100}

KeywordsYaml == {[social_links |-> SocialLinks, inlink_threshold |-> t] : t \in InlinkThresholds}

\* utils.isSocialLink
isSocialLink(u) ==
    IF ~IsStr(u) THEN FALSE                               \* tldextract raises
    ELSE LET url_ext == TldExtract(u.s)
             url_domain == lower(url_ext.domain)
             url_subdomain == lower(url_ext.subdomain)
         IN  IF url_domain \in keywordsMap.social_links THEN TRUE
             ELSE IF (url_subdomain \o "_" \o url_domain) \in keywordsMap.social_links THEN TRUE
             ELSE FALSE

\* utils.isDomainLink
isDomainLink(root, u) ==
    IF ~IsStr(root) \/ ~IsStr(u) THEN FALSE               \* tldextract raises
    ELSE LET root_domain == TldExtract(root.s).domain
             child_domain == TldExtract(u.s).domain
             matchRatio == FuzzRatio(root_domain, child_domain)
             fuzzThreshold == keywordsMap.inlink_threshold
         IN  IF matchRatio >= fuzzThreshold THEN TRUE ELSE FALSE

(***************************************************************************)
(* The parsed document.  BeautifulSoup(markup, "html.parser") is modelled  *)
(* by its result: the element nodes of the markup in document order and    *)
(* the encoding bs4 detected (None for a str, a name for bytes).  The soup *)
(* is a bs4 Tag, and bool() of a Tag is True whatever it holds.            *)
(***************************************************************************)
BeautifulSoup(markup) == [nodes |-> markup.nodes, original_encoding |-> markup.encoding]

SoupTruthy(isoup) == TRUE

find_all(isoup, name) == SelectSeq(isoup.nodes, LAMBDA n : n.name = name)

\* soup.find(name): the first such node, None without one
find(isoup, name) == IF find_all(isoup, name) = <<>> THEN None ELSE Head(find_all(isoup, name))

RECURSIVE ConcatText(_)
ConcatText(nodes) == IF nodes = <<>> THEN "" ELSE Head(nodes).text \o ConcatText(Tail(nodes))

\* soup.get_text()
get_text(isoup) == Str(ConcatText(isoup.nodes))

\* a faulty variant: only the script nodes are taken out of the tree
RemoveScripts(isoup) ==
    [isoup EXCEPT !.nodes = SelectSeq(@, LAMBDA n : n.name # "script")]

\* extractor.extract, the two tag.extract() loops
RemoveScriptAndStyle(isoup) ==
    [isoup EXCEPT !.nodes = SelectSeq(@, LAMBDA n : n.name # "script" /\ n.name # "style")]

(***************************************************************************)
(* The field extractors of extractor.py.                                   *)
(***************************************************************************)
ScriptKV(sc) ==
    [script_src |-> TagGet(sc, "src", None), script_type |-> TagGet(sc, "type", Str(""))]

\* extractor.getScriptTags
getScriptTags(isoup) ==
    LET tags == find_all(isoup, "script")
    IN  SelectSeq([i \in DOMAIN tags |-> ScriptKV(tags[i])], LAMBDA kv : Truthy(kv.script_src))

ImageKV(img) == [img_src |-> TagGet(img, "src", None), img_alt |-> TagGet(img, "alt", Str(""))]

\* extractor.getImageTags
getImageTags(isoup) ==
    LET tags == find_all(isoup, "img")
    IN  SelectSeq([i \in DOMAIN tags |-> ImageKV(tags[i])], LAMBDA kv : Truthy(kv.img_src))

TagAttrs(tag) == tag.attrs

\* extractor.getMetaData
getMetaData(isoup) ==
    LET tags == find_all(isoup, "meta")
    IN  SelectSeq([i \in DOMAIN tags |-> TagAttrs(tags[i])], LAMBDA attrDict : DOMAIN attrDict # {})

\* extractor.getSEOData
getSEOData(isoup) ==
    LET items == SelectSeq(find_all(isoup, "script"),
                           LAMBDA n : "type" \in DOMAIN n.attrs
                                      /\ n.attrs["type"] = "application/ld+json")
    IN  [i \in DOMAIN items |-> extractTextAsIs(items[i])]

\* extractor.getLinks, the key-value pair of one <a> node
LinkKV(link, baseURL) ==
    [href |-> toAbsoluteURL(baseURL, extractAttributeValue(link, "href")),
     aid |-> extractAttributeValue(link, "id"),
     aname |-> extractAttributeValue(link, "name"),
     atext |-> extractFirst(link)]

NoLinks == [emails |-> <<>>, sociallinks |-> <<>>, inlinks |-> <<>>, outlinks |-> <<>>]

\* a faulty variant: the social test is an "if" of its own, not an "elif"
AppendLinkTwice(acc, kv, baseURL) ==
    LET a1 == IF isEmailLink(kv.href) THEN [acc EXCEPT !.emails = Append(@, kv)] ELSE acc
    IN  IF isSocialLink(kv.href) THEN [a1 EXCEPT !.sociallinks = Append(@, kv)]
        ELSE IF isEmailLink(kv.href) THEN a1
        ELSE IF isDomainLink(baseURL, kv.href) THEN [a1 EXCEPT !.inlinks = Append(@, kv)]
        ELSE [a1 EXCEPT !.outlinks = Append(@, kv)]

\* a faulty variant: the social test comes before the email test
AppendLinkSocialFirst(acc, kv, baseURL) ==
    IF isSocialLink(kv.href) THEN [acc EXCEPT !.sociallinks = Append(@, kv)]
    ELSE IF isEmailLink(kv.href) THEN [acc EXCEPT !.emails = Append(@, kv)]
    ELSE IF isDomainLink(baseURL, kv.href) THEN [acc EXCEPT !.inlinks = Append(@, kv)]
    ELSE [acc EXCEPT !.outlinks = Append(@, kv)]

\* extractor.getLinks, the if / elif chain that files one pair
AppendLink(acc, kv, baseURL) ==
    IF isEmailLink(kv.href) THEN [acc EXCEPT !.emails = Append(@, kv)]
    ELSE IF isSocialLink(kv.href) THEN [acc EXCEPT !.sociallinks = Append(@, kv)]
    ELSE IF isDomainLink(baseURL, kv.href) THEN [acc EXCEPT !.inlinks = Append(@, kv)]
    ELSE [acc EXCEPT !.outlinks = Append(@, kv)]

RECURSIVE LinksLoop(_, _, _)
LinksLoop(links, baseURL, acc) ==
    IF links = <<>> THEN acc
    ELSE LinksLoop(Tail(links), baseURL, AppendLink(acc, LinkKV(Head(links), baseURL), baseURL))

\* extractor.getLinks
getLinks(isoup, baseURL) == LinksLoop(find_all(isoup, "a"), baseURL, NoLinks)

(***************************************************************************)
(* The inputs the model draws from.                                        *)
(***************************************************************************)
Threads == 1..NumThreads

NoAttrs == [k \in {} |-> ""]

RECURSIVE SeqsUpTo(_, _)
\* the sequences over S of length n or less
SeqsUpTo(S, n) ==
    IF n = 0 THEN {<<>>}
    ELSE LET shorter == SeqsUpTo(S, n - 1)
         IN  shorter \cup {Append(q, x) : q \in shorter, x \in S}

TitleNode == Tag("title", NoAttrs, " T\n")
ScriptSrcNode == Tag("script", [src |-> "s.js", type |-> "text/javascript"], "js")
ScriptSeoNode == Tag("script", [type |-> "application/ld+json"], "{}")
StyleNode == Tag("style", NoAttrs, "css")
ImgNode == Tag("img", [src |-> "i.png"], "")
MetaNode == Tag("meta", [charset |-> "utf-8"], "")
ParaNode == Tag("p", NoAttrs, "hi")

A_NoHref == Tag("a", [id |-> "i"], " x\t")
A_EmptyHref == Tag("a", [href |-> ""], "e")
A_Relative == Tag("a", [href |-> "/p", name |-> "n"], "r")
A_MailSocial == Tag("a", [href |-> "mailto:x@facebook.com"], "m")
A_MailUpper == Tag("a", [href |-> "MAILTO:a@b.com"], "M")
A_MailInPath == Tag("a", [href |-> "https://example.com/mailto:z"], "z")
A_Social == Tag("a", [href |-> "https://www.facebook.com/x"], "f")
A_Plus == Tag("a", [href |-> "https://plus.google.com/u"], "g")
A_Other == Tag("a", [href |-> "https://other.org/"], "o")
A_Near == Tag("a", [href |-> "https://exampel.com"], "n")
A_Bare == Tag("a", [href |-> "a@b.com"], "b")

PageURL == Str("https://example.com/a/b")
SocialPageURL == Str("https://www.facebook.com/page")

\* the nodes the documents handed to extract are made of
ExtractPool == {TitleNode, ScriptSrcNode, ScriptSeoNode, StyleNode, A_NoHref}

Markups ==
    {[encoding |-> e, nodes |-> ns] :
        e \in {None, Str("utf-8")}, ns \in SeqsUpTo(ExtractPool, MaxNodes)}

URLs == {PageURL, None}

\* the arguments of the concurrent calls
ConcInputs ==
    {<<PageURL, [encoding |-> None, nodes |-> <<MetaNode, ScriptSrcNode, ImgNode, A_NoHref>>]>>,
     <<None, [encoding |-> Str("utf-8"), nodes |-> <<TitleNode, StyleNode, ScriptSeoNode>>]>>}

\* the arguments whose first call is remembered, to compare a later call with
RefInputs == {<<PageURL, [encoding |-> Str("utf-8"), nodes |-> <<ScriptSrcNode, A_NoHref>>]>>}

\* the nodes the documents handed to getLinks are made of
AnchorPool ==
    {A_NoHref, A_EmptyHref, A_Relative, A_MailSocial, A_MailUpper, A_MailInPath, A_Social,
     A_Plus, A_Other, A_Near, A_Bare, ParaNode}

LinkBases == {PageURL, SocialPageURL, None}

(***************************************************************************)
(* extractor.extract, statement by statement, run by thread t.             *)
(***************************************************************************)
Timestamp(c) == [py |-> "str", utcnow |-> c]

SetKey(d, k, v) == (k :> v) @@ d

\* the caller enters extract(url, inpBinObj)
Start(t, u, h) ==
    /\ pc[t] = "idle"
    /\ url' = [url EXCEPT ![t] = u]
    /\ html' = [html EXCEPT ![t] = h]
    /\ pc' = [pc EXCEPT ![t] = "begin"]
    /\ UNCHANGED <<keywordsMap, loaded, clock, soup, header, body, webdata, memo, http, lk, ef, em>>

\* lines 33-47 and, were the soup false, lines 79-81
Begin(t) ==
    /\ pc[t] = "begin"
    /\ soup' = [soup EXCEPT ![t] = BeautifulSoup(html[t])]
    /\ body' = [body EXCEPT ![t] = EmptyDict]
    /\ LET ok == SetKey(SetKey(SetKey(SetKey(EmptyDict, "url", url[t]),
                                      "extracted_ts", Timestamp(clock)),
                               "status_code", 200),
                        "status_msg", "OK")
       IN  IF SoupTruthy(BeautifulSoup(html[t]))
           THEN /\ header' = [header EXCEPT ![t] = ok]
                /\ pc' = [pc EXCEPT ![t] = "title"]
           ELSE /\ header' = [header EXCEPT ![t] =
                       SetKey(SetKey(ok, "status_code", 999), "status_msg",
                              "Could not generate the soup . Raw HTML might be empty")]
                /\ pc' = [pc EXCEPT ![t] = "assemble"]
    /\ UNCHANGED <<keywordsMap, loaded, clock, url, html, webdata, memo, http, lk, ef, em>>

\* one statement body[key] = value of the success branch
SetBody(t, at, key, value, next) ==
    /\ pc[t] = at
    /\ body' = [body EXCEPT ![t] = SetKey(@, key, value)]
    /\ pc' = [pc EXCEPT ![t] = next]
    /\ UNCHANGED <<keywordsMap, loaded, clock, url, html, soup, header, webdata, memo, http, lk, ef, em>>

Title(t) == SetBody(t, "title", "title", extractFirst(find(soup[t], "title")), "encoding")

Encoding(t) ==
    SetBody(t, "encoding", "encoded_in", extractFirst(soup[t].original_encoding), "seo")

Seo(t) == SetBody(t, "seo", "seo", getSEOData(soup[t]), "images")

Images(t) == SetBody(t, "images", "images", getImageTags(soup[t]), "scripts")

Scripts(t) == SetBody(t, "scripts", "scripts", getScriptTags(soup[t]), "remove")

\* a faulty variant: the soup is one object all threads share
RemoveShared(t) ==
    /\ pc[t] = "remove"
    /\ soup' = [u \in Threads |-> IF soup[u] = NoCall THEN soup[u]
                                  ELSE RemoveScriptAndStyle(soup[u])]
    /\ pc' = [pc EXCEPT ![t] = "meta"]
    /\ UNCHANGED <<keywordsMap, loaded, clock, url, html, header, body, webdata, memo, http, lk, ef, em>>

\* lines 63-67
Remove(t) ==
    /\ pc[t] = "remove"
    /\ soup' = [soup EXCEPT ![t] = RemoveScriptAndStyle(@)]
    /\ pc' = [pc EXCEPT ![t] = "meta"]
    /\ UNCHANGED <<keywordsMap, loaded, clock, url, html, header, body, webdata, memo, http, lk, ef, em>>

Meta(t) == SetBody(t, "meta", "meta", getMetaData(soup[t]), "links")

\* a faulty variant: the four lists outlive the call and are not emptied
LinksKept(t) ==
    SetBody(t, "links", "links",
            LinksLoop(find_all(soup[t], "a"), url[t],
                      IF memo[t] = NoCall THEN NoLinks ELSE memo[t].webdata.body["links"]),
            "raw_text")

Links(t) == SetBody(t, "links", "links", getLinks(soup[t], url[t]), "raw_text")

RawText(t) == SetBody(t, "raw_text", "raw_text", get_text(soup[t]), "assemble")

\* lines 83-92: the record is returned and the locals soup, header and body are gone
Assemble(t) ==
    /\ pc[t] = "assemble"
    /\ webdata' = [webdata EXCEPT ![t] = [header |-> header[t], body |-> body[t]]]
    /\ memo' = [memo EXCEPT ![t] =
                    IF @ = NoCall /\ <<url[t], html[t]>> \in RefInputs
                    THEN [url |-> url[t], html |-> html[t],
                          webdata |-> [header |-> header[t], body |-> body[t]]]
                    ELSE @]
    /\ soup' = [soup EXCEPT ![t] = NoCall]
    /\ header' = [header EXCEPT ![t] = EmptyDict]
    /\ body' = [body EXCEPT ![t] = EmptyDict]
    /\ pc' = [pc EXCEPT ![t] = "done"]
    /\ UNCHANGED <<keywordsMap, loaded, clock, url, html, http, lk, ef, em>>

\* the caller is done with the record
Return(t) ==
    /\ pc[t] = "done"
    /\ url' = [url EXCEPT ![t] = None]
    /\ html' = [html EXCEPT ![t] = NoCall]
    /\ webdata' = [webdata EXCEPT ![t] = NoCall]
    /\ pc' = [pc EXCEPT ![t] = "idle"]
    /\ UNCHANGED <<keywordsMap, loaded, clock, soup, header, body, memo, http, lk, ef, em>>

\* time passes
Tick ==
    /\ clock < MaxClock
    /\ clock' = clock + 1
    /\ UNCHANGED <<keywordsMap, loaded, pc, url, html, soup, header, body, webdata, memo, http, lk, ef, em>>

(***************************************************************************)
(* app.py, the /extract route.  The module extractor binds no name         *)
(* get_extracted_content, so ext.get_extracted_content raises              *)
(* AttributeError inside the view and Flask answers 500.                   *)
(***************************************************************************)
ExtractorNames ==
    {"logging", "eutil", "datetime", "BeautifulSoup", "logger", "extract", "getLinks",
     "getScriptTags", "getImageTags", "getMetaData", "getSEOData", "normalize_url"}

\* app.extract
extract_route(page_url) ==
    IF "get_extracted_content" \in ExtractorNames
    THEN [pageURL |-> page_url, status |-> 200, fault |-> "none"]
    ELSE [pageURL |-> page_url, status |-> 500, fault |-> "AttributeError"]

HttpExtract(page_url) ==
    /\ http' = extract_route(page_url)
    /\ http' # http
    /\ UNCHANGED <<keywordsMap, loaded, clock, pc, url, html, soup, header, body, webdata, memo, lk, ef, em>>

(***************************************************************************)
(* Spec: calls of extract one after the other, while time passes.          *)
(***************************************************************************)
InitCalls ==
    /\ clock = 0
    /\ pc = [t \in Threads |-> "idle"]
    /\ url = [t \in Threads |-> None]
    /\ html = [t \in Threads |-> NoCall]
    /\ soup = [t \in Threads |-> NoCall]
    /\ header = [t \in Threads |-> EmptyDict]
    /\ body = [t \in Threads |-> EmptyDict]
    /\ webdata = [t \in Threads |-> NoCall]
    /\ memo = [t \in Threads |-> NoCall]
    /\ http = NoCall

Init ==
    /\ keywordsMap \in KeywordsYaml
    /\ loaded = keywordsMap
    /\ InitCalls
    /\ lk = NoCall /\ ef = NoCall /\ em = NoCall

Step(t) ==
    \/ Begin(t) \/ Title(t) \/ Encoding(t) \/ Seo(t) \/ Images(t) \/ Scripts(t)
    \/ Remove(t) \/ Meta(t) \/ Links(t) \/ RawText(t) \/ Assemble(t) \/ Return(t)

Next ==
    \/ \E u \in URLs, h \in Markups : Start(1, u, h)
    \/ Step(1)
    \/ Tick

Spec == Init /\ [][Next]_vars

(***************************************************************************)
(* SpecConc: the threads of app.run(threaded=True), each in a call of      *)
(* extract, interleaved statement by statement, and the requests to the    *)
(* /extract route.                                                         *)
(***************************************************************************)
NextConc ==
    \E t \in Threads :
        \/ \E in \in ConcInputs : Start(t, in[1], in[2])
        \/ Step(t)
        \/ HttpExtract(PageURL)

SpecConc == Init /\ [][NextConc]_vars

(***************************************************************************)
(* SpecLinks: getLinks applied to a document and a base URL.               *)
(***************************************************************************)
InitLinks ==
    /\ keywordsMap \in KeywordsYaml
    /\ loaded = keywordsMap
    /\ InitCalls
    /\ ef = NoCall /\ em = NoCall
    /\ lk \in {[isoup |-> [nodes |-> ns, original_encoding |-> None], baseURL |-> b,
                result |-> NoCall] : ns \in SeqsUpTo(AnchorPool, MaxAnchors), b \in LinkBases}

CallGetLinks ==
    /\ lk.result = NoCall
    /\ lk' = [lk EXCEPT !.result = getLinks(lk.isoup, lk.baseURL)]
    /\ UNCHANGED <<keywordsMap, loaded, clock, pc, url, html, soup, header, body, webdata, memo, http, ef, em>>

SpecLinks == InitLinks /\ [][CallGetLinks]_vars

(***************************************************************************)
(* SpecFirst: extractFirst applied to a value.                             *)
(***************************************************************************)
TextAlphabet == {"a", " ", "\t", "\n", "\r", "\f"}

RECURSIVE Texts(_)
\* the strings over TextAlphabet of length n or less
Texts(n) == IF n = 0 THEN {""} ELSE LET shorter == Texts(n - 1)
                                     IN  shorter \cup {s \o c : s \in shorter, c \in TextAlphabet}

InitFirst ==
    /\ keywordsMap \in KeywordsYaml
    /\ loaded = keywordsMap
    /\ InitCalls
    /\ lk = NoCall /\ em = NoCall
    /\ \/ ef = [val |-> None, out |-> NoCall]
       \/ \E s \in Texts(MaxTextLen) : ef = [val |-> Str(s), out |-> NoCall]
       \/ \E s \in Texts(MaxTextLen) : ef = [val |-> Tag("title", NoAttrs, s), out |-> NoCall]
       \/ \E n \in {0, 5} : ef = [val |-> Int(n), out |-> NoCall]

CallExtractFirst ==
    /\ ef.out = NoCall
    /\ ef' = [ef EXCEPT !.out = extractFirst(ef.val)]
    /\ UNCHANGED <<keywordsMap, loaded, clock, pc, url, html, soup, header, body, webdata, memo, http, lk, em>>

SpecFirst == InitFirst /\ [][CallExtractFirst]_vars

(***************************************************************************)
(* SpecEmail: isEmailLink applied to a value.                              *)
(***************************************************************************)
EmailInputs ==
    {p \o m \o r : p \in {"", "x", "https://f.com/"},
                   m \in {"", "mailto:", "MAILTO:", "MailTo:", "mailto", "mail to:"},
                   r \in {"", "a@b.com", "a", "@", "a@b", "a@b@c.com", "@b.com"}}

InitEmail ==
    /\ keywordsMap \in KeywordsYaml
    /\ loaded = keywordsMap
    /\ InitCalls
    /\ lk = NoCall /\ ef = NoCall
    /\ \/ em = [url |-> None, out |-> NoCall]
       \/ \E s \in EmailInputs : em = [url |-> Str(s), out |-> NoCall]

CallIsEmailLink ==
    /\ em.out = NoCall
    /\ em' = [em EXCEPT !.out = [bool |-> isEmailLink(em.url)]]
    /\ UNCHANGED <<keywordsMap, loaded, clock, pc, url, html, soup, header, body, webdata, memo, http, lk, ef>>

SpecEmail == InitEmail /\ [][CallIsEmailLink]_vars

(***************************************************************************)
(* extract run alone: the body it builds for (url, inpBinObj), the         *)
(* statements of the success branch taken in the order of the code.        *)
(***************************************************************************)
extractAlone(u, h) ==
    LET parsed == BeautifulSoup(h)
        visible == RemoveScriptAndStyle(parsed)
    IN  [title |-> extractFirst(find(parsed, "title")),
         encoded_in |-> extractFirst(parsed.original_encoding),
         seo |-> getSEOData(parsed),
         images |-> getImageTags(parsed),
         scripts |-> getScriptTags(parsed),
         meta |-> getMetaData(visible),
         links |-> getLinks(visible, u),
         raw_text |-> get_text(visible)]

(***************************************************************************)
(* The claims.                                                             *)
(***************************************************************************)
Count(q, x) == Cardinality({i \in DOMAIN q : q[i] = x})

InSeq(q, x) == \E i \in DOMAIN q : q[i] = x

AllFiled(r) == r.emails \o r.sociallinks \o r.inlinks \o r.outlinks

AnchorsOf(nodes) == SelectSeq(nodes, LAMBDA n : n.name = "a")

\* C1: getLinks files every <a> node in exactly one of the four buckets: the
\* four lengths add up to the number of <a> nodes, and each node's pair is
\* filed as often as the document holds a node with that pair.
C1_Partition ==
    lk.result # NoCall =>
        LET anchors == AnchorsOf(lk.isoup.nodes)
            filed == AllFiled(lk.result)
        IN  /\ Len(lk.result.emails) + Len(lk.result.sociallinks)
                 + Len(lk.result.inlinks) + Len(lk.result.outlinks)
               = Cardinality({i \in DOMAIN lk.isoup.nodes : lk.isoup.nodes[i].name = "a"})
            /\ \A i \in DOMAIN anchors :
                 Count(filed, LinkKV(anchors[i], lk.baseURL))
                   = Cardinality({j \in DOMAIN anchors :
                                     LinkKV(anchors[j], lk.baseURL) = LinkKV(anchors[i], lk.baseURL)})

C1_Witness ==
    /\ lk.result # NoCall
    /\ Len(lk.isoup.nodes) = 2
    /\ Len(lk.result.emails) = 1
    /\ Len(lk.result.inlinks) = 1
    /\ isSocialLink(lk.result.emails[1].href)

\* C2: the buckets follow the priority email, social, same-domain, other: an
\* email href is in emails whatever the other two tests say, a non-email
\* social href in sociallinks whatever the domain test says, and what is left
\* is in inlinks iff isDomainLink(baseURL, href), else in outlinks.
C2_PriorityOrder ==
    lk.result # NoCall =>
        LET r == lk.result
            b == lk.baseURL
            anchors == AnchorsOf(lk.isoup.nodes)
        IN  /\ \A i \in DOMAIN r.emails : isEmailLink(r.emails[i].href)
            /\ \A i \in DOMAIN r.sociallinks :
                 ~isEmailLink(r.sociallinks[i].href) /\ isSocialLink(r.sociallinks[i].href)
            /\ \A i \in DOMAIN r.inlinks :
                 /\ ~isEmailLink(r.inlinks[i].href) /\ ~isSocialLink(r.inlinks[i].href)
                 /\ isDomainLink(b, r.inlinks[i].href)
            /\ \A i \in DOMAIN r.outlinks :
                 /\ ~isEmailLink(r.outlinks[i].href) /\ ~isSocialLink(r.outlinks[i].href)
                 /\ ~isDomainLink(b, r.outlinks[i].href)
            /\ \A i \in DOMAIN anchors : InSeq(AllFiled(r), LinkKV(anchors[i], b))

C2_Witness ==
    /\ lk.result # NoCall
    /\ \E i \in DOMAIN lk.result.emails :
         /\ isSocialLink(lk.result.emails[i].href)
         /\ isDomainLink(lk.baseURL, lk.result.emails[i].href)
    /\ \E i \in DOMAIN lk.result.sociallinks :
         isDomainLink(lk.baseURL, lk.result.sociallinks[i].href)

HasNoHref(n) == "href" \notin DOMAIN n.attrs \/ n.attrs["href"] = ""

\* the pair of an <a> node whose href is the page URL itself
PairAtPage(n, b) ==
    [href |-> b,
     aid |-> Str(IF "id" \in DOMAIN n.attrs THEN n.attrs["id"] ELSE ""),
     aname |-> Str(IF "name" \in DOMAIN n.attrs THEN n.attrs["name"] ELSE ""),
     atext |-> extractFirst(n)]

C3_EmptyInputFails ==
    \A t \in Threads :
        (pc[t] = "done" /\ html[t].nodes = <<>>) =>
            /\ webdata[t].header["status_code"] # 200
            /\ webdata[t].body = EmptyDict

IsScriptOrStyle(n) == n.name = "script" \/ n.name = "style"

\* C4: the scripts are harvested before the script and style nodes are taken
\* out, and raw_text is computed after: when the nodes are about to be taken
\* out body.scripts is set, when raw_text is about to be computed the tree
\* holds no script or style node, and the returned record holds the text of no
\* script or style node in raw_text and the src and type of every script node
\* with a non-empty src in scripts.
C4_ScriptsBeforeRemoval ==
    \A t \in Threads :
        /\ pc[t] = "remove" => "scripts" \in DOMAIN body[t]
        /\ pc[t] = "raw_text" =>
             \A i \in DOMAIN soup[t].nodes : ~IsScriptOrStyle(soup[t].nodes[i])
        /\ pc[t] = "done" =>
             \A i \in DOMAIN html[t].nodes :
                LET n == html[t].nodes[i]
                IN  /\ (IsScriptOrStyle(n) /\ n.text # "")
                         => ~Contains(webdata[t].body["raw_text"].s, n.text)
                    /\ (n.name = "script" /\ "src" \in DOMAIN n.attrs /\ n.attrs["src"] # "")
                         => InSeq(webdata[t].body["scripts"],
                                  [script_src |-> Str(n.attrs["src"]),
                                   script_type |-> Str(IF "type" \in DOMAIN n.attrs
                                                       THEN n.attrs["type"] ELSE "")])

C4_Witness ==
    /\ pc[1] = "done"
    /\ html[1].nodes = <<ScriptSrcNode, TitleNode>>
    /\ webdata[1].body["raw_text"] = Str(" T\n")
    /\ Len(webdata[1].body["scripts"]) = 1

\* C5: a request to /extract with a page URL is answered with the record, and
\* no fault reaches the HTTP layer.
C5_RouteAnswers == http # NoCall => (http.status = 200 /\ http.fault = "none")

WithoutTimestamp(w) ==
    [header |-> [k \in DOMAIN w.header \ {"extracted_ts"} |-> w.header[k]], body |-> w.body]

AsDict(r) == [k \in DOMAIN r |-> r[k]]

\* C6: whatever the interleaving, the configuration map is what was loaded at
\* import, a call about to return holds the body it builds when run alone,
\* and the record it returned is that body under a header that differs from
\* the run-alone one in its timestamp at most.
C6_Isolation ==
    /\ keywordsMap = loaded
    /\ \A t \in Threads :
         /\ pc[t] = "assemble" => body[t] = AsDict(extractAlone(url[t], html[t]))
         /\ pc[t] = "done" =>
              /\ webdata[t].body = AsDict(extractAlone(url[t], html[t]))
              /\ DOMAIN webdata[t].header = {"url", "extracted_ts", "status_code", "status_msg"}
              /\ webdata[t].header["url"] = url[t]
              /\ webdata[t].header["status_code"] = 200
              /\ webdata[t].header["status_msg"] = "OK"

C6_Witness ==
    \E t1 \in Threads, t2 \in Threads :
        /\ t1 # t2
        /\ pc[t1] = "assemble" /\ Len(body[t1]["scripts"]) = 1
        /\ pc[t2] = "meta" /\ html[t2] = html[t1]

\* C7: a call with the arguments of an earlier call returns a record equal to
\* the earlier one in every header and body field but the timestamp.
C7_Idempotent ==
    \A t \in Threads :
        (pc[t] = "done" /\ memo[t] # NoCall /\ memo[t].url = url[t] /\ memo[t].html = html[t]) =>
            WithoutTimestamp(webdata[t]) = WithoutTimestamp(memo[t].webdata)

C7_Witness ==
    /\ pc[1] = "done" /\ memo[1] # NoCall
    /\ memo[1].url = url[1] /\ memo[1].html = html[1]
    /\ webdata[1].header["extracted_ts"] # memo[1].webdata.header["extracted_ts"]
    /\ Len(webdata[1].body["links"].inlinks) = 1

\* C8: isEmailLink is true for a url that holds "mailto:" in any letter case,
\* true for a url that is a bare email address, and false otherwise.
C8_EmailOrBareAddress ==
    em.out # NoCall =>
        em.out.bool = (IsStr(em.url) /\ (Contains(lower(em.url.s), "mailto:") \/ IsBareEmail(em.url.s)))

IsReplacedTrim(text, out) ==
    \E i \in 0..Len(text), j \in 0..Len(text) :
        /\ i <= j
        /\ \A k \in 1..i : Char(text, k) \in Whitespace
        /\ \A k \in (j + 1)..Len(text) : Char(text, k) \in Whitespace
        /\ i < j => (Char(text, i + 1) \notin Whitespace /\ Char(text, j) \notin Whitespace)
        /\ Len(out) = j - i
        /\ \A k \in 1..(j - i) :
             Char(out, k) = IF Char(text, i + k) \in {"\t", "\r", "\n"} THEN " " ELSE Char(text, i + k)

\* C9 as stated: extractFirst returns a string, the trimmed and replaced text
\* of a node, and the empty string for an absent value and for a value
\* without a text attribute.
C9_EmptyWithoutText ==
    ef.out # NoCall =>
        /\ IsStr(ef.out)
        /\ IsTag(ef.val) => IsReplacedTrim(ef.val.text, ef.out.s)
        /\ ~IsTag(ef.val) => ef.out = Str("")

\* C9 as amended: extractFirst returns the trimmed and replaced text of a
\* node, the empty string for an absent (false) value, and a true value
\* without a text attribute unchanged.
C9_UnchangedWithoutText ==
    ef.out # NoCall =>
        /\ IsTag(ef.val) => (IsStr(ef.out) /\ IsReplacedTrim(ef.val.text, ef.out.s))
        /\ ~Truthy(ef.val) => ef.out = Str("")
        /\ (Truthy(ef.val) /\ ~IsTag(ef.val)) => ef.out = ef.val

C9_Witness ==
    /\ ef.out # NoCall
    /\ ef.val = Tag("title", NoAttrs, " a\ta")
    /\ ef.out = Str("a a")

====
